---- MODULE Spec2Model ----
(***************************************************************************)
(* Lead acquisition, enrichment and outreach engine of ai-sales.           *)
(*                                                                         *)
(* The lead store (database.py), the IndiaMART scrape run                  *)
(* (indiamart_scraper.py), the enrichment cascade (contact_finder.py),     *)
(* the outreach scheduler (module5_orchestrator.py) and inbound-reply      *)
(* handling (module4_outreach.py) as one state machine over the leads      *)
(* table.  Every handler is one atomic action: the core is sequential      *)
(* (spec section 5).  Text the code computes on (titles, phone numbers)    *)
(* is a tuple of one-character strings, so that strip(), lower(), slicing  *)
(* and digit filtering are computed; text the code only stores or tests    *)
(* for emptiness (emails, web sites) is a string.  Timestamps are clock    *)
(* ticks, TicksPerDay of them to a day; utcnow().isoformat() followed by   *)
(* datetime.fromisoformat() gives the same instant back, timedelta.days    *)
(* is the floor of the difference in days.                                 *)
(***************************************************************************)
EXTENDS Integers, Sequences, FiniteSets, TLC

VARIABLES
    leads,      \* the leads table, in insertion (id) order
    now,        \* datetime.utcnow(), in ticks
    enabled,    \* WHATSAPP_ENABLED
    last,       \* the operation that ran last
    pre,        \* the leads table before that operation
    batch,      \* the rows that operation loaded or was given
    inp,        \* what the world outside did to each of those rows
    msgs,       \* the messages that operation handed to the transport
    calls,      \* the provider calls that operation made
    ret,        \* what that operation returned
    raised,     \* whether that operation ended by raising
    contactedAt, \* lead id -> the tick run_outreach moved it to contacted
    schema,     \* whether the leads table exists
    results,    \* the dict the last run_full_pipeline returned
    steps,      \* the stages that run_full_pipeline ran, in order
    tasks       \* the run_outreach calls running as background tasks

vars ==
    <<leads, now, enabled, last, pre, batch, inp, msgs, calls, ret, raised,
      contactedAt, schema, results, steps, tasks>>

(***************************************************************************)
(* Bounds of the model.                                                    *)
(***************************************************************************)
MaxLeads == 3
MaxStore == 2
MaxResults == 2
MaxQueries == 2
MaxPerCategory == 2
TicksPerDay == 2
MaxDays == 11
MaxShortNow == 4
MaxFollowLeads == 2
MaxEnrichLeads == 1

\* The leads of a store whose stage names are followed.
MaxStageLeads == 1

\* The run_outreach calls that may run at once as background tasks.
MaxTasks == 2

\* How many times in a row a phone is normalized.
MaxNormalize == 2

\* The searches of ApolloSource the provider answers freely (the later ones
\* find nobody), and the largest cap search_leads is called with.
MaxApolloAnswers == 3
MaxApolloCap == 2

(***************************************************************************)
(* Program constants.                                                      *)
(***************************************************************************)
\* MAX_OUTREACH_DAY = int(os.getenv("MAX_OUTREACH_DAY", "20")): the deployment
\* modelled here sets the environment variable to 2.
MAX_OUTREACH_DAY == 2
FOLLOWUP_DAYS == <<2, 5, 10>>
FOLLOWUP_LIMIT == 50
INBOUND_LIMIT == 500
EXISTING_LIMIT == 1000
TITLE_MAX == 80
COMPANY_MAX == 200
PHONE_MAX == 50
PHONE_DIGITS == 10
APOLLO_SEARCHES == 6
NoTime == 0 - 1

Min(a, b) == IF a <= b THEN a ELSE b

(***************************************************************************)
(* Text.                                                                   *)
(***************************************************************************)
NoStr == <<>>

Lower(ch) ==
    CASE ch = "A" -> "a"
      [] ch = "B" -> "b"
      [] ch = "C" -> "c"
      [] OTHER -> ch

LowerStr(s) == [i \in 1..Len(s) |-> Lower(s[i])]

RECURSIVE LStrip(_)
LStrip(s) == IF s # <<>> /\ Head(s) = " " THEN LStrip(Tail(s)) ELSE s

RECURSIVE RStrip(_)
RStrip(s) ==
    IF s # <<>> /\ s[Len(s)] = " " THEN RStrip(SubSeq(s, 1, Len(s) - 1)) ELSE s

Strip(s) == RStrip(LStrip(s))

\* s[:n]
Trunc(s, n) == SubSeq(s, 1, Min(n, Len(s)))

\* s[:n], the other end of the string.
FirstN(s, n) == SubSeq(s, 1, IF Len(s) <= n THEN Len(s) ELSE n)

\* s[-n:]
LastN(s, n) == IF Len(s) <= n THEN s ELSE SubSeq(s, Len(s) - n + 1, Len(s))

Digits == {"0", "1", "2", "3", "4", "5", "6", "7", "8", "9"}

IsDigit(ch) == ch \in Digits

\* ''.join(filter(str.isdigit, s)), re.sub(r'\D', '', s)
OnlyDigits(s) == SelectSeq(s, IsDigit)

Reverse(s) == [i \in 1..Len(s) |-> s[Len(s) + 1 - i]]

(***************************************************************************)
(* The values the model draws text from.                                   *)
(***************************************************************************)
P1 == <<"9", "8", "7", "6", "5", "4", "3", "2", "1", "0">>
P2 == <<"9", "1", "2", "3", "4", "5", "6", "7", "8", "0">>
PShort == <<"1", "2", "3", "4", "5">>

IndiamartLink == "https://www.indiamart.com/acme"
OtherLink == "https://directory.example/acme"

\* "indiamart" in s, for the web addresses and emails of the model
HasIndiamart(s) == s \in {IndiamartLink, "sales@indiamart.com"}

\* "https://wa.me/91" + phone
WaMe(phone) ==
    CASE phone = P1 -> "https://wa.me/919876543210"
      [] phone = P2 -> "https://wa.me/919123456780"
      [] OTHER -> "https://wa.me/91"

Stages == {"new", "contacted", "pitched", "closed"}

(***************************************************************************)
(* database.py: the leads table.                                           *)
(***************************************************************************)
\* load_leads without its LIMIT clause.
LoadLeadsNoLimit(store, stage, limit) ==
    LET hit(l) == stage = "" \/ l.stage = stage
    IN  Reverse(SelectSeq(store, hit))

\* load_leads(stage, limit): SELECT ... [WHERE stage=%s] ORDER BY id DESC LIMIT
\* %s.  stage = "" stands for None (`if stage:` treats both alike).
LoadLeads(store, stage, limit) ==
    LET hit(l) == stage = "" \/ l.stage = stage
        rows == Reverse(SelectSeq(store, hit))
    IN  SubSeq(rows, 1, Min(limit, Len(rows)))

\* One INSERT of save_leads: the row as the VALUES tuple builds it.
InsertRow(store, d, t) ==
    Append(store,
        [ id         |-> Len(store) + 1,
          name       |-> Trunc(d.name, COMPANY_MAX),
          company    |-> Trunc(d.company, COMPANY_MAX),
          phone      |-> Trunc(d.phone, PHONE_MAX),
          email      |-> d.email,
          website    |-> d.website,
          stage      |-> IF d.stage = "" THEN "new" ELSE d.stage,
          created_at |-> IF d.created_at = NoTime THEN t ELSE d.created_at,
          updated_at |-> t ])

\* save_leads(leads): one connection and one commit per row; a row whose
\* INSERT raises (its index is in `fails`) is rolled back and skipped.
RECURSIVE SaveRows(_, _, _, _, _)
SaveRows(store, rows, i, fails, t) ==
    IF i > Len(rows) THEN [store |-> store, saved |-> 0]
    ELSE IF i \in fails
         THEN SaveRows(store, rows, i + 1, fails, t)
         ELSE LET rest == SaveRows(InsertRow(store, rows[i], t), rows, i + 1, fails, t)
              IN  [store |-> rest.store, saved |-> rest.saved + 1]

\* save_leads with one try around the whole loop: the first row that fails
\* ends the batch.
SaveLeadsAbortOnError(store, rows, fails, t) ==
    LET bad   == { i \in 1..Len(rows) : i \in fails }
        first == IF bad = {} THEN Len(rows) + 1
                 ELSE CHOOSE i \in bad : \A j \in bad : i <= j
    IN  SaveRows(store, SubSeq(rows, 1, first - 1), 1, {}, t)

SaveLeads(store, rows, fails, t) == SaveRows(store, rows, 1, fails, t)

\* Database.py, save_leads(leads): one connection and one commit for the
\* whole batch.  outs[i] is what happens to row i: "ok", "pyfail" (building
\* the row raises before the INSERT is sent) or "dbfail" (the INSERT
\* raises in the database).  After a failed INSERT the transaction is
\* aborted: every later INSERT raises, and the commit at the end rolls back
\* what the batch inserted.  `held` is the table as the open transaction
\* sees it.
RECURSIVE SaveRowsOneCommit(_, _, _, _, _, _, _, _)
SaveRowsOneCommit(store, held, rows, i, outs, aborted, saved, t) ==
    IF i > Len(rows)
    THEN [store |-> IF aborted THEN store ELSE held, saved |-> saved]
    ELSE IF outs[i] = "pyfail" \/ aborted
    THEN SaveRowsOneCommit(store, held, rows, i + 1, outs, aborted, saved, t)
    ELSE IF outs[i] = "dbfail"
    THEN SaveRowsOneCommit(store, held, rows, i + 1, outs, TRUE, saved, t)
    ELSE SaveRowsOneCommit(store, InsertRow(held, rows[i], t), rows, i + 1, outs,
                           aborted, saved + 1, t)

\* count_by_stage(): SELECT stage, COUNT(*) FROM leads GROUP BY stage
CountByStage(store) ==
    [st \in { store[i].stage : i \in 1..Len(store) } |->
        Cardinality({ i \in 1..Len(store) : store[i].stage = st })]

\* update_lead_stage without its WHERE clause.
UpdateLeadStageEveryRow(store, id, stage, t) ==
    [i \in 1..Len(store) |-> [store[i] EXCEPT !.stage = stage, !.updated_at = t]]

\* update_lead_stage writing the stage and leaving updated_at alone.
UpdateLeadStageOnly(store, id, stage, t) ==
    [i \in 1..Len(store) |->
        IF store[i].id = id THEN [store[i] EXCEPT !.stage = stage] ELSE store[i]]

\* update_lead_stage(lead_id, stage): UPDATE leads SET stage, updated_at.
UpdateLeadStage(store, id, stage, t) ==
    [i \in 1..Len(store) |->
        IF store[i].id = id
        THEN [store[i] EXCEPT !.stage = stage, !.updated_at = t]
        ELSE store[i]]

(***************************************************************************)
(* indiamart_scraper.py: IndiaMartLeadPipeline.run.                        *)
(***************************************************************************)
\* The dedup key of a lead: (company or name).lower().strip()
DedupKey(l) == Strip(LowerStr(IF l.company # NoStr THEN l.company ELSE l.name))

\* existing_names, from load_leads(limit=1000)
ExistingNames(store) ==
    LET existing == LoadLeads(store, "", EXISTING_LIMIT)
    IN  { DedupKey(existing[i]) : i \in 1..Len(existing) } \ {NoStr}

\* SerpAPISource.search: a non-200 response or an exception gives [].
Search(q) == IF q.status = "200" THEN q.results ELSE <<>>

LinkOk(link) == link # "" /\ HasIndiamart(link)

\* The IndiaMartLead built from one search result at tick t.
Candidate(title, r, t) ==
    [ name          |-> title,
      company       |-> title,
      website       |-> "",
      phone         |-> r.phone,
      email         |-> IF HasIndiamart(r.email) THEN "" ELSE r.email,
      indiamart_url |-> r.link,
      stage         |-> "new",
      created_at    |-> t ]

\* for r in results: ... of one query.  `cand` collects every candidate
\* with a usable link in arrival order, kept or skipped.
RECURSIVE ScanResults(_, _, _, _, _)
ScanResults(rs, seen, cat, cand, t) ==
    IF rs = <<>> THEN [seen |-> seen, cat |-> cat, cand |-> cand]
    ELSE LET r     == Head(rs)
             title == Trunc(Strip(r.title), TITLE_MAX)
             c     == Candidate(title, r, t)
         IN  IF ~LinkOk(r.link)
             THEN ScanResults(Tail(rs), seen, cat, cand, t)
             ELSE IF title \in seen
             THEN ScanResults(Tail(rs), seen, cat, Append(cand, c), t)
             ELSE ScanResults(Tail(rs), seen \cup {title}, Append(cat, c),
                              Append(cand, c), t)

\* for query in queries: if len(cat_leads) >= max_per_category: break
RECURSIVE ScanQueries(_, _, _, _, _, _)
ScanQueries(qs, seen, cat, cand, maxpc, t) ==
    IF qs = <<>> \/ Len(cat) >= maxpc
    THEN [cat |-> cat, cand |-> cand, left |-> Len(qs)]
    ELSE LET s == ScanResults(Search(Head(qs)), seen, cat, cand, t)
         IN  ScanQueries(Tail(qs), s.seen, s.cat, s.cand, maxpc, t)

\* The enrichment loop of run: ContactEnricher.enrich gave `det`,
\* RealWebsiteFinder.find gave `found`.
EnrichCandidate(c, det, found) ==
    LET phone == IF det.phone # NoStr THEN det.phone ELSE c.phone
        email == IF det.email # "" THEN det.email ELSE c.email
        name  == IF det.owner # NoStr THEN det.owner ELSE c.name
        site  == IF det.real_website # "" THEN det.real_website
                 ELSE IF c.website # "" THEN c.website
                 ELSE IF found # "" THEN found
                 ELSE IF phone # NoStr THEN WaMe(phone)
                 ELSE c.indiamart_url
    IN  [c EXCEPT !.phone = phone, !.email = email, !.name = name, !.website = site]

\* run(max_per_category, clear_first=False) on `store` at tick t.
RunScrape(store, qs, maxpc, det, found, fails, t) ==
    LET scan     == ScanQueries(qs, ExistingNames(store), <<>>, <<>>, maxpc, t)
        enriched == [i \in 1..Len(scan.cat) |-> EnrichCandidate(scan.cat[i], det, found)]
        all      == Trunc(enriched, maxpc)
        saved    == IF all = <<>> THEN [store |-> store, saved |-> 0]
                    ELSE SaveLeads(store, all, fails, t)
    IN  [store |-> saved.store, all |-> all, cand |-> scan.cand, left |-> scan.left]

(***************************************************************************)
(* module4_outreach.py: WhatsAppManager.                                   *)
(*                                                                         *)
(* What the world outside does to one message is an outcome:               *)
(*   "ok"       the message is generated, the transport accepts it and the *)
(*              stage write is committed;                                  *)
(*   "txfail"   client.messages.create raises (send catches it);           *)
(*   "dbfail"   update_lead_stage raises (_update_stage and the simulation *)
(*              branch of run_outreach catch it);                          *)
(*   "genraise" SalesAgentBrain raises while generating the message.       *)
(***************************************************************************)
\* digits = ''.join(filter(str.isdigit, str(to_phone)))[-10:]
PhoneDigits(phone) == LastN(OnlyDigits(phone), PHONE_DIGITS)

\* send(to_phone, message): whether a message went to the transport, and
\* what send returned.
Send(phone, o) ==
    IF phone = NoStr THEN [handed |-> FALSE, ok |-> FALSE]
    ELSE IF Len(PhoneDigits(phone)) # PHONE_DIGITS THEN [handed |-> FALSE, ok |-> FALSE]
    ELSE [handed |-> TRUE, ok |-> o # "txfail"]

\* _update_stage(lead_id, stage): update_lead_stage inside try/except.
UpdateStage(store, id, stage, o, t) ==
    IF o = "dbfail" THEN store ELSE UpdateLeadStage(store, id, stage, t)

Msg(ev, lead, n) == [ev |-> ev, id |-> lead.id, n |-> n]

\* send_cold_outreach(lead)
SendColdOutreach(store, lead, o, t) ==
    IF o = "genraise"
    THEN [store |-> store, ok |-> FALSE, raised |-> TRUE, msgs |-> <<>>]
    ELSE LET s == Send(lead.phone, o)
         IN  [ store  |-> IF s.ok THEN UpdateStage(store, lead.id, "contacted", o, t)
                          ELSE store,
               ok     |-> s.ok,
               raised |-> FALSE,
               msgs   |-> IF s.handed THEN <<Msg("cold", lead, 0)>> ELSE <<>> ]

\* send_followup(lead, followup_num)
SendFollowup(lead, n, o) ==
    IF o = "genraise" THEN [raised |-> TRUE, msgs |-> <<>>]
    ELSE [ raised |-> FALSE,
           msgs   |-> IF Send(lead.phone, o).handed THEN <<Msg("wa_followup", lead, n)>>
                      ELSE <<>> ]

\* digits in str(l.get("phone", ""))
Contains(s, sub) ==
    \E k \in 0..(Len(s) - Len(sub)) : SubSeq(s, k + 1, k + Len(sub)) = sub

\* next((l for l in leads if digits in str(l.get("phone", ""))), None):
\* the index in `rows` of the lead found, 0 for None.
FindByPhone(rows, digits) ==
    LET hits == { i \in 1..Len(rows) : Contains(rows[i].phone, digits) }
    IN  IF hits = {} THEN 0 ELSE CHOOSE i \in hits : \A j \in hits : i <= j

\* handle_inbound_whatsapp(from_number, body), SalesAgentBrain.chat having
\* returned result["stage"] = stage ("" for none).
HandleInbound(store, from, stage, o, t) ==
    LET digits == PhoneDigits(from)
        rows   == LoadLeads(store, "", INBOUND_LIMIT)
        k      == FindByPhone(rows, digits)
    IN  IF k # 0 /\ stage # ""
        THEN [store |-> UpdateStage(store, rows[k].id, stage, o, t), id |-> rows[k].id]
        ELSE [store |-> store, id |-> IF k # 0 THEN rows[k].id ELSE 0]

(***************************************************************************)
(* module5_orchestrator.py: SalesOrchestrator.                             *)
(***************************************************************************)
\* The loop of run_outreach over the loaded rows, from row i on.
RECURSIVE OutreachLoop(_, _, _, _, _, _, _, _)
OutreachLoop(store, rows, i, sent, out, outs, en, t) ==
    IF i > Len(rows) \/ sent >= MAX_OUTREACH_DAY
    THEN [store |-> store, sent |-> sent, msgs |-> out, raised |-> FALSE]
    ELSE IF rows[i].phone = NoStr
    THEN OutreachLoop(store, rows, i + 1, sent, out, outs, en, t)
    ELSE IF en
    THEN LET r == SendColdOutreach(store, rows[i], outs[i], t)
         IN  IF r.raised
             THEN [store |-> store, sent |-> sent, msgs |-> out, raised |-> TRUE]
             ELSE OutreachLoop(r.store, rows, i + 1,
                               IF r.ok THEN sent + 1 ELSE sent,
                               out \o r.msgs, outs, en, t)
    ELSE IF outs[i] = "dbfail"
    THEN OutreachLoop(store, rows, i + 1, sent, out, outs, en, t)
    ELSE OutreachLoop(UpdateLeadStage(store, rows[i].id, "contacted", t), rows,
                      i + 1, sent + 1, out, outs, en, t)

\* run_outreach()
RunOutreachOn(store, outs, en, t) ==
    OutreachLoop(store, LoadLeads(store, "new", MAX_OUTREACH_DAY), 1, 0, <<>>,
                 outs, en, t)

\* created = lead.get("updated_at") or lead.get("created_at") or ""
Anchor(l) == IF l.updated_at # NoTime THEN l.updated_at ELSE l.created_at

\* (datetime.utcnow() - dt).days
DaysSince(anchor, t) == (t - anchor) \div TicksPerDay

InFollowupDays(d) == \E k \in 1..Len(FOLLOWUP_DAYS) : FOLLOWUP_DAYS[k] = d

\* FOLLOWUP_DAYS.index(days) + 1
FollowupNum(d) == CHOOSE k \in 1..Len(FOLLOWUP_DAYS) : FOLLOWUP_DAYS[k] = d

\* The loop of run_followups over the loaded rows, from row i on.  A
\* "followup" message records a follow-up the run counted as sent (lines
\* 150-151 and 153-154), a "wa_followup" one handed to the transport.
RECURSIVE FollowupLoop(_, _, _, _, _, _, _)
FollowupLoop(rows, i, sent, out, outs, en, t) ==
    IF i > Len(rows) THEN [sent |-> sent, msgs |-> out, raised |-> FALSE]
    ELSE LET lead == rows[i]
             days == DaysSince(Anchor(lead), t)
         IN  IF Anchor(lead) = NoTime \/ ~InFollowupDays(days) \/ lead.phone = NoStr
             THEN FollowupLoop(rows, i + 1, sent, out, outs, en, t)
             ELSE IF en
             THEN LET r == SendFollowup(lead, FollowupNum(days), outs[i])
                  IN  IF r.raised
                      THEN [sent |-> sent, msgs |-> out, raised |-> TRUE]
                      ELSE FollowupLoop(rows, i + 1, sent + 1,
                               out \o r.msgs \o <<Msg("followup", lead, FollowupNum(days))>>,
                               outs, en, t)
             ELSE FollowupLoop(rows, i + 1, sent + 1,
                               Append(out, Msg("followup", lead, FollowupNum(days))),
                               outs, en, t)

\* run_followups()
RunFollowupsOn(store, outs, en, t) ==
    FollowupLoop(LoadLeads(store, "contacted", FOLLOWUP_LIMIT), 1, 0, <<>>, outs, en, t)

(***************************************************************************)
(* contact_finder.py: ContactFinder and BulkContactEnricher.               *)
(***************************************************************************)
Call(prov, lead) ==
    [prov |-> prov, id |-> lead.id, phone |-> lead.phone, email |-> lead.email,
     website |-> lead.website]

\* Source 1 of find_all: search_justdial returned jd.
AfterJustDial(lead, jd) ==
    IF jd.phone # NoStr
    THEN [lead EXCEPT !.phone   = jd.phone,
                      !.email   = IF jd.email # "" THEN jd.email ELSE lead.email,
                      !.website = IF jd.website # "" THEN jd.website ELSE lead.website]
    ELSE lead

\* Source 2 without its guard.
NeedsGoogleAlways(lead) == TRUE

\* Source 2: google_search_contacts is called when email or website is empty.
NeedsGoogle(lead) == lead.email = "" \/ lead.website = ""

AfterGoogle(lead, g) ==
    LET email == IF g.email # "" /\ lead.email = "" THEN g.email ELSE lead.email
        site  == IF g.website # "" /\ (lead.website = "" \/ HasIndiamart(lead.website))
                 THEN g.website ELSE lead.website
    IN  [lead EXCEPT !.email = email, !.website = site]

\* Source 3: scrape_website_email is called on a real web site when the email
\* is empty.
NeedsWebsite(lead) ==
    lead.website # "" /\ ~HasIndiamart(lead.website) /\ lead.email = ""

AfterWebsite(lead, email) == IF email # "" THEN [lead EXCEPT !.email = email] ELSE lead

\* Source 4: the phone is replaced by its last 10 digits when it has 10.
AfterWhatsApp(lead) ==
    IF lead.phone # NoStr /\ Len(PhoneDigits(lead.phone)) = PHONE_DIGITS
    THEN [lead EXCEPT !.phone = PhoneDigits(lead.phone)]
    ELSE lead

\* find_all(lead), the providers answering w.jd, w.google and w.site: the
\* lead it returns and the provider calls it made, each with the lead as it
\* was when the call was made.
FindAll(lead, w) ==
    LET l1 == AfterJustDial(lead, w.jd)
        g  == NeedsGoogle(l1)
        l2 == IF g THEN AfterGoogle(l1, w.google) ELSE l1
        s  == NeedsWebsite(l2)
        l3 == IF s THEN AfterWebsite(l2, w.site) ELSE l2
    IN  [ lead  |-> AfterWhatsApp(l3),
          calls |-> <<Call("justdial", lead)>>
                    \o (IF g THEN <<Call("google", l1)>> ELSE <<>>)
                    \o (IF s THEN <<Call("website", l2)>> ELSE <<>>) ]

\* The UPDATE of BulkContactEnricher.run, inside try/except.
WriteBack(store, lead, enriched, o, t) ==
    IF o = "dbfail" THEN store
    ELSE [i \in 1..Len(store) |->
            IF store[i].id = lead.id
            THEN [store[i] EXCEPT
                    !.phone      = enriched.phone,
                    !.email      = enriched.email,
                    !.website    = IF enriched.website # "" THEN enriched.website
                                   ELSE lead.website,
                    !.updated_at = t]
            ELSE store[i]]

\* The loop of BulkContactEnricher.run over needs_enrichment, from row i on;
\* world[id] is what the providers and the store do for lead id.
RECURSIVE EnrichLoop(_, _, _, _, _, _, _)
EnrichLoop(store, rows, i, updated, out, world, t) ==
    IF i > Len(rows) THEN [store |-> store, updated |-> updated, calls |-> out]
    ELSE LET lead == rows[i]
             w    == world[lead.id]
             f    == FindAll(lead, w)
             new  == f.lead.phone # lead.phone \/ f.lead.email # lead.email
         IN  IF new
             THEN EnrichLoop(WriteBack(store, lead, f.lead, w.db, t), rows, i + 1,
                             IF w.db = "dbfail" THEN updated ELSE updated + 1,
                             out \o f.calls, world, t)
             ELSE EnrichLoop(store, rows, i + 1, updated, out \o f.calls, world, t)

MissingContact(l) == l.email = "" \/ l.phone = NoStr

\* needs_enrichment of BulkContactEnricher.run(limit)
NeedsEnrichment(store, limit) == SelectSeq(LoadLeads(store, "", limit), MissingContact)

\* BulkContactEnricher.run(limit)
BulkEnrichOn(store, limit, world, t) ==
    EnrichLoop(store, NeedsEnrichment(store, limit), 1, 0, <<>>, world, t)

(***************************************************************************)
(* module1_lead_sourcing.py: ApolloSource.                                 *)
(***************************************************************************)
\* for person in resp.json().get("people", []): a person with no name or a
\* name seen before is passed over, any other becomes a Lead.
RECURSIVE ScanPeople(_, _, _)
ScanPeople(people, all, seen) ==
    IF people = <<>> THEN [all |-> all, seen |-> seen]
    ELSE LET person == Head(people)
         IN  IF person.name = "" \/ person.name \in seen
             THEN ScanPeople(Tail(people), all, seen)
             ELSE ScanPeople(Tail(people),
                             Append(all, [name |-> person.name, email |-> person.email,
                                          phone |-> NoStr, website |-> "",
                                          source |-> "apollo", stage |-> "new"]),
                             seen \cup {person.name})

\* search_leads(max), from search i on: the leads it returns and the
\* searches it issued, each with the number of leads held when it was
\* issued. A 403 ends the loop, another status than 200 and an exception
\* (a timeout, a payload that is no JSON) go on to the next search.
RECURSIVE SearchLeads(_, _, _, _, _, _)
SearchLeads(i, all, seen, issued, world, max) ==
    IF i > APOLLO_SEARCHES \/ Len(all) >= max
    THEN [leads |-> all, issued |-> issued]
    ELSE LET o   == world[i]
             issued1 == Append(issued, [search |-> i, held |-> Len(all)])
         IN  IF o.status = "403" THEN [leads |-> all, issued |-> issued1]
             ELSE IF o.status # "200"
             THEN SearchLeads(i + 1, all, seen, issued1, world, max)
             ELSE LET r == ScanPeople(o.people, all, seen)
                  IN  SearchLeads(i + 1, r.all, r.seen, issued1, world, max)

(***************************************************************************)
(* module5_orchestrator.py: run_full_pipeline.  p is the pipeline so far:  *)
(* the store, whether its table exists, the results dict, the stages that  *)
(* ran (each with whether it raised) and the messages handed over.  w is   *)
(* what the world outside does to the stage; w.raise is an exception that  *)
(* leaves the stage before it touched the store.                           *)
(***************************************************************************)
PIPELINE_MAX_PER_CATEGORY == 25
PIPELINE_ENRICH_LIMIT == 30

Step(stage, r) == [stage |-> stage, raised |-> r]

\* except Exception as e: results["errors"] = [err]
StageErrorOverwrites(p, stage, err) ==
    [p EXCEPT !.results.errors = <<err>>, !.steps = Append(@, Step(stage, TRUE))]

\* except Exception as e: results["errors"].append(err)
StageError(p, stage, err) ==
    [p EXCEPT !.results.errors = Append(@, err), !.steps = Append(@, Step(stage, TRUE))]

\* Step 1: if scrape_fresh: pipeline.run(max_per_category=25, clear_first=False)
ScrapeStep(p, on, w, t) ==
    IF ~on THEN p
    ELSE IF w.raise THEN StageError(p, "scrape", "Scrape error")
    ELSE LET r == RunScrape(p.store, w.qs, PIPELINE_MAX_PER_CATEGORY, w.det, w.found,
                            w.fails, t)
         IN  [p EXCEPT !.store = r.store,
                       !.schema = @ \/ r.all # <<>>,
                       !.results.scraped = Len(r.all),
                       !.steps = Append(@, Step("scrape", FALSE))]

\* Step 2: if enrich: enricher.run(limit=30)
EnrichStep(p, on, w, t) ==
    IF ~on THEN p
    ELSE IF w.raise THEN StageError(p, "enrich", "Enrich error")
    ELSE LET world == [i \in 1..Len(p.store) |-> w.world]
             r     == BulkEnrichOn(p.store, PIPELINE_ENRICH_LIMIT, world, t)
         IN  [p EXCEPT !.store = r.store,
                       !.schema = TRUE,
                       !.results.enriched = r.updated,
                       !.steps = Append(@, Step("enrich", FALSE))]

\* Step 3: if outreach: self.run_outreach(); load_leads raises on a store
\* without its table, send_cold_outreach when the generation raises.
OutreachStep(p, on, w, en, t) ==
    IF ~on THEN p
    ELSE IF w.raise \/ ~p.schema THEN StageError(p, "outreach", "Outreach error")
    ELSE LET r == RunOutreachOn(p.store, w.outs, en, t)
             q == [p EXCEPT !.store = r.store, !.msgs = @ \o r.msgs]
         IN  IF r.raised THEN StageError(q, "outreach", "Outreach error")
             ELSE [q EXCEPT !.results.messaged = r.sent,
                            !.steps = Append(@, Step("outreach", FALSE))]

\* run_full_pipeline(scrape_fresh, enrich, outreach): the pipeline after the
\* last stage, and the store as the outreach stage found it.
RunFullPipelineOn(store, sch, scrape_fresh, enrich, outreach, w, en, t) ==
    LET p0 == [store |-> store, schema |-> sch,
               results |-> [scraped |-> 0, enriched |-> 0, messaged |-> 0, errors |-> <<>>],
               steps |-> <<>>, msgs |-> <<>>]
        p1 == ScrapeStep(p0, scrape_fresh, w.scrape, t)
        p2 == EnrichStep(p1, enrich, w.enrich, t)
        p3 == OutreachStep(p2, outreach, w.outreach, en, t)
    IN  [end |-> p3, before |-> p2.store]

(***************************************************************************)
(* The inputs of a scrape run.                                             *)
(***************************************************************************)
SearchResults ==
    { [title |-> <<"A", "c">>, link |-> IndiamartLink, phone |-> NoStr, email |-> ""],
      [title |-> <<"a", "c", " ">>, link |-> IndiamartLink, phone |-> NoStr,
       email |-> "sales@indiamart.com"],
      [title |-> <<"a", "c", " ">>, link |-> IndiamartLink, phone |-> P1,
       email |-> "info@acme.example"],
      [title |-> <<"b">>, link |-> OtherLink, phone |-> P1, email |-> ""] }

SeqsUpTo(S, n) == UNION { [1..k -> S] : k \in 0..n }

QueryOutcomes ==
    { [status |-> "200", results |-> rs] : rs \in SeqsUpTo(SearchResults, MaxResults) }
    \cup { [status |-> "403", results |-> <<>>] }

RECURSIVE TotalResults(_)
TotalResults(qs) ==
    IF qs = <<>> THEN 0 ELSE Len(Head(qs).results) + TotalResults(Tail(qs))

QueryRuns ==
    { qs \in SeqsUpTo(QueryOutcomes, MaxQueries) : TotalResults(qs) <= MaxResults }

\* What the world outside does to one first-contact message, to one
\* follow-up and to one store write.
SendOutcomes == {"ok", "txfail", "dbfail", "genraise"}

FollowupOutcomes == {"ok", "txfail", "genraise"}

StoreOutcomes == {"ok", "dbfail"}

\* The From numbers of inbound messages: "+91" before P1, P2 bare, a short
\* number and one with no digit.
FromNumbers == { <<"+", "9", "1">> \o P1, P2, PShort, <<"+">> }

\* The stage SalesAgentBrain.chat returns with its reply.
ClassifierStages == Stages

\* The same with one stage name outside the funnel: result["stage"] is any
\* string the classifier chooses, and handle_inbound_whatsapp hands it on
\* as it comes.
AnyClassifierStages == ClassifierStages \cup {"interested"}

\* What search_justdial, google_search_contacts and scrape_website_email
\* return for one lead, and what the store does to its UPDATE.
JustDialResults ==
    { [phone |-> NoStr, email |-> "", website |-> ""],
      [phone |-> P2, email |-> "", website |-> ""],
      [phone |-> P2, email |-> "jd@acme.example", website |-> "https://jd.acme.example"] }

GoogleResults ==
    { [email |-> "", website |-> ""],
      [email |-> "", website |-> "https://g.acme.example"],
      [email |-> "g@acme.example", website |-> "https://g.acme.example"] }

WebsiteResults == {"", "web@acme.example"}

EnrichWorlds ==
    [jd : JustDialResults, google : GoogleResults, site : WebsiteResults,
     db : StoreOutcomes]

NoDetails == [phone |-> NoStr, email |-> "", owner |-> NoStr, real_website |-> ""]

FullDetails ==
    [phone |-> P2, email |-> "owner@acme.example", owner |-> <<"R">>,
     real_website |-> "https://acme.example"]

\* What the world outside gave one run: ContactEnricher.enrich (det),
\* RealWebsiteFinder.find (found), and the rows whose INSERT raised (fails).
ScrapeWorlds ==
    { [det |-> NoDetails, found |-> "", fails |-> {}],
      [det |-> NoDetails, found |-> "https://found.example", fails |-> {}],
      [det |-> FullDetails, found |-> "", fails |-> {}],
      [det |-> NoDetails, found |-> "", fails |-> {1}] }

\* The providers of the life of a lead: only the web search may answer.
LifeWorlds ==
    { [jd |-> [phone |-> NoStr, email |-> "", website |-> ""],
       google |-> g, site |-> "", db |-> "ok"] :
         g \in { [email |-> "", website |-> ""],
                 [email |-> "g@acme.example", website |-> "https://g.acme.example"] } }

\* What Apollo answers to one search: people, a refusal, a server error,
\* or nothing in time.
ApolloOutcomes ==
    { [status |-> "200", people |-> ps] :
        ps \in { <<>>, <<[name |-> "Asha", email |-> "asha@acme.example"]>>,
                 <<[name |-> "Asha", email |-> "asha@acme.example"],
                   [name |-> "Ravi", email |-> ""]>> } }
    \cup { [status |-> st, people |-> <<>>] : st \in {"403", "500", "timeout"} }

ApolloWorlds ==
    { w \in [1..APOLLO_SEARCHES -> ApolloOutcomes] :
        \A i \in (MaxApolloAnswers + 1)..APOLLO_SEARCHES :
            w[i] = [status |-> "200", people |-> <<>>] }

\* A telephone as a JSON-LD block of a directory page gives it.
PRaw == <<"+", "9", "1", "-">> \o P1

\* The leads a source adapter hands to save_leads at tick t: the dataclass
\* of the adapter as a dict, its phone a number found by the [6-9]\d{9}
\* pattern, the raw "telephone" of a JSON-LD block, or none.
AdapterRows(t) ==
    { [ name |-> n, company |-> n, website |-> "", phone |-> ph, email |-> "",
        stage |-> "new", created_at |-> t ] :
          n \in { <<"a", "c", "m">>, <<"z", "e", "d">> }, ph \in {NoStr, P1, PRaw} }

\* What the world outside does to the three stages of one
\* run_full_pipeline.
PipelineResults == { r \in SearchResults : LinkOk(r.link) /\ r.email # "sales@indiamart.com" }

PipelineScrapes ==
    { [raise |-> TRUE, qs |-> <<>>, det |-> NoDetails, found |-> "", fails |-> {}] }
    \cup { [raise |-> FALSE, qs |-> <<[status |-> "200", results |-> <<r>>]>>,
            det |-> NoDetails, found |-> "", fails |-> {}] : r \in PipelineResults }

PipelineEnrichments ==
    { [raise |-> TRUE, world |-> CHOOSE lw \in LifeWorlds : TRUE] }
    \cup { [raise |-> FALSE, world |-> lw] : lw \in LifeWorlds }

PipelineOutreaches ==
    { [raise |-> TRUE, outs |-> [k \in 1..MAX_OUTREACH_DAY |-> "ok"]] }
    \cup { [raise |-> FALSE, outs |-> [k \in 1..MAX_OUTREACH_DAY |-> o]] :
              o \in {"ok", "genraise"} }

\* The worlds of a run: a stage that is not asked for meets no world.
Unasked(S) == { CHOOSE w \in S : w.raise }

WorldsFor(scrape_fresh, enrich, outreach) ==
    [scrape   : IF scrape_fresh THEN PipelineScrapes ELSE Unasked(PipelineScrapes),
     enrich   : IF enrich THEN PipelineEnrichments ELSE Unasked(PipelineEnrichments),
     outreach : IF outreach THEN PipelineOutreaches ELSE Unasked(PipelineOutreaches)]

(***************************************************************************)
(* Actions.                                                                *)
(***************************************************************************)
\* A task that is not running, and no task running.
Idle == [rows |-> <<>>, i |-> 0, sent |-> 0]

NoTasks == [p \in 1..MaxTasks |-> Idle]

NoHistory ==
    /\ msgs' = <<>>
    /\ calls' = <<>>

\* results of run_full_pipeline before its first stage
NoResults == [scraped |-> 0, enriched |-> 0, messaged |-> 0, errors |-> <<>>]

NoPipeline ==
    /\ results' = NoResults
    /\ steps' = <<>>
    /\ UNCHANGED tasks

\* contactedAt, with NoTime for the rows inserted since
Extend(f, n) == [i \in 1..n |-> IF i <= Len(f) THEN f[i] ELSE NoTime]

IndiaMartRun(runs, worlds) ==
    \E qs \in runs, maxpc \in 1..MaxPerCategory, w \in worlds :
        LET r == RunScrape(leads, qs, maxpc, w.det, w.found, w.fails, now)
        IN  /\ Len(leads) + Len(r.all) <= MaxStore
            /\ leads' = r.store
            /\ last' = "scrape"
            /\ pre' = leads
            /\ batch' = r.cand
            /\ inp' = <<>>
            /\ ret' = Len(r.all)
            /\ raised' = FALSE
            /\ NoHistory
            /\ contactedAt' = Extend(contactedAt, Len(r.store))
            /\ schema' = (schema \/ r.all # <<>>)
            /\ NoPipeline
            /\ UNCHANGED <<now, enabled>>

OutcomesFor(rows, set) == [ { rows[i].id : i \in 1..Len(rows) } -> set ]

ById(rows, f) == [i \in 1..Len(rows) |-> f[rows[i].id]]

\* The stage writes run_outreach committed: contactedAt for the rows moved.
Moved(before, after, t) ==
    [i \in 1..Len(before) |->
        IF before[i].stage = "new" /\ after[i].stage = "contacted" THEN t
        ELSE contactedAt[i]]

RunOutreach ==
    LET rows == LoadLeads(leads, "new", MAX_OUTREACH_DAY)
    IN  \E f \in OutcomesFor(rows, IF enabled THEN SendOutcomes ELSE StoreOutcomes) :
            LET r == IF schema THEN RunOutreachOn(leads, ById(rows, f), enabled, now)
                     ELSE [store |-> leads, sent |-> 0, msgs |-> <<>>, raised |-> TRUE]
            IN  /\ leads' = r.store
                /\ last' = "outreach"
                /\ pre' = leads
                /\ batch' = rows
                /\ inp' = ById(rows, f)
                /\ msgs' = r.msgs
                /\ calls' = <<>>
                /\ ret' = r.sent
                /\ raised' = r.raised
                /\ contactedAt' = Moved(leads, r.store, now)
                /\ NoPipeline
                /\ UNCHANGED <<now, enabled, schema>>

RunFollowups ==
    LET rows == LoadLeads(leads, "contacted", FOLLOWUP_LIMIT)
    IN  \E f \in OutcomesFor(rows, IF enabled THEN FollowupOutcomes ELSE {"ok"}) :
            LET r == IF schema THEN RunFollowupsOn(leads, ById(rows, f), enabled, now)
                     ELSE [sent |-> 0, msgs |-> <<>>, raised |-> TRUE]
            IN  /\ last' = "followups"
                /\ pre' = leads
                /\ batch' = rows
                /\ inp' = ById(rows, f)
                /\ msgs' = r.msgs
                /\ calls' = <<>>
                /\ ret' = r.sent
                /\ raised' = r.raised
                /\ NoPipeline
                /\ UNCHANGED <<leads, now, enabled, contactedAt, schema>>

HandleInboundWith(stages) ==
    \E from \in FromNumbers, stage \in stages \cup {""}, o \in StoreOutcomes :
        LET r == IF schema THEN HandleInbound(leads, from, stage, o, now)
                 ELSE [store |-> leads, id |-> 0]
        IN  /\ leads' = r.store
            /\ last' = "inbound"
            /\ pre' = leads
            /\ batch' = <<>>
            /\ inp' = <<from, stage, o>>
            /\ ret' = r.id
            /\ raised' = ~schema
            /\ NoHistory
            /\ NoPipeline
            /\ UNCHANGED <<now, enabled, contactedAt, schema>>

HandleInboundWhatsapp == HandleInboundWith(ClassifierStages)

BulkEnrich(worlds, maxlimit) ==
    \E limit \in 1..maxlimit :
        LET rows == NeedsEnrichment(leads, limit)
        IN  \E world \in OutcomesFor(rows, worlds) :
                LET r == BulkEnrichOn(leads, limit, world, now)
                IN  /\ leads' = r.store
                    /\ last' = "enrich"
                    /\ pre' = leads
                    /\ batch' = rows
                    /\ inp' = ById(rows, world)
                    /\ msgs' = <<>>
                    /\ calls' = r.calls
                    /\ ret' = r.updated
                    /\ raised' = FALSE
                    /\ schema' = TRUE
                    /\ NoPipeline
                    /\ UNCHANGED <<now, enabled, contactedAt>>

Tick(max) ==
    /\ now < max
    /\ now' = now + 1
    /\ last' = "tick"
    /\ pre' = leads
    /\ batch' = <<>>
    /\ inp' = <<>>
    /\ ret' = 0
    /\ raised' = FALSE
    /\ NoHistory
    /\ NoPipeline
    /\ UNCHANGED <<leads, enabled, contactedAt, schema>>

\* run_outreach as the background task p of run_orchestrator: it loads its
\* leads once, then handles one lead and sleeps, other requests running
\* in between.
StartRunOutreach ==
    \E p \in 1..MaxTasks :
        /\ tasks[p] = Idle
        /\ tasks' = [tasks EXCEPT ![p] =
                        [rows |-> LoadLeads(leads, "new", MAX_OUTREACH_DAY), i |-> 1,
                         sent |-> 0]]
        /\ last' = "start"
        /\ pre' = leads
        /\ batch' = LoadLeads(leads, "new", MAX_OUTREACH_DAY)
        /\ inp' = <<>>
        /\ ret' = 0
        /\ raised' = FALSE
        /\ NoHistory
        /\ results' = NoResults
        /\ steps' = <<>>
        /\ UNCHANGED <<leads, now, enabled, contactedAt, schema>>

\* One turn of the loop of run_outreach in task p, on the lead it loaded as
\* row i: the task ends when the turn breaks out of the loop or raises.
RunOutreachLead ==
    \E p \in 1..MaxTasks :
      \E o \in (IF enabled THEN SendOutcomes ELSE StoreOutcomes) :
        LET t == tasks[p]
        IN  /\ t.i \in 1..Len(t.rows)
            /\ \E r \in { OutreachLoop(leads, SubSeq(t.rows, 1, t.i), t.i, t.sent, <<>>,
                                        [k \in 1..t.i |-> o], enabled, now) } :
                  /\ leads' = r.store
                  /\ tasks' = [tasks EXCEPT ![p] =
                                  IF r.raised \/ t.sent >= MAX_OUTREACH_DAY THEN Idle
                                  ELSE [t EXCEPT !.i = @ + 1, !.sent = r.sent]]
                  /\ last' = "lead"
                  /\ pre' = leads
                  /\ batch' = <<t.rows[t.i]>>
                  /\ inp' = <<o>>
                  /\ msgs' = r.msgs
                  /\ calls' = <<>>
                  /\ ret' = r.sent
                  /\ raised' = r.raised
                  /\ contactedAt' = Moved(leads, r.store, now)
                  /\ results' = NoResults
                  /\ steps' = <<>>
                  /\ UNCHANGED <<now, enabled, schema>>

\* return sent, the loop of task p being over.
RunOutreachReturn ==
    \E p \in 1..MaxTasks :
        /\ tasks[p].i > Len(tasks[p].rows)
        /\ tasks' = [tasks EXCEPT ![p] = Idle]
        /\ last' = "return"
        /\ pre' = leads
        /\ batch' = <<>>
        /\ inp' = <<>>
        /\ ret' = tasks[p].sent
        /\ raised' = FALSE
        /\ NoHistory
        /\ results' = NoResults
        /\ steps' = <<>>
        /\ UNCHANGED <<leads, now, enabled, contactedAt, schema>>

ApolloSearchLeads ==
    \E max \in 1..MaxApolloCap, world \in ApolloWorlds :
        LET r == SearchLeads(1, <<>>, {}, <<>>, world, max)
        IN  /\ last' = "apollo"
            /\ pre' = leads
            /\ batch' = r.leads
            /\ inp' = world
            /\ msgs' = <<>>
            /\ calls' = r.issued
            /\ ret' = max
            /\ raised' = FALSE
            /\ NoPipeline
            /\ UNCHANGED <<leads, now, enabled, contactedAt, schema>>

\* The operations of database.py, called on their own.  On a store without
\* the leads table every INSERT of save_leads fails, and the SELECT or
\* UPDATE of the other three raises.
InitDb ==
    /\ schema' = TRUE
    /\ last' = "init_db"
    /\ pre' = leads
    /\ batch' = <<>>
    /\ inp' = <<>>
    /\ ret' = 0
    /\ raised' = FALSE
    /\ NoHistory
    /\ NoPipeline
    /\ UNCHANGED <<leads, now, enabled, contactedAt>>

SaveLeadsUpTo(maxstore) ==
    \E rows \in SeqsUpTo(AdapterRows(now), maxstore - Len(leads)) :
      \E fails \in SUBSET (1..Len(rows)) :
        LET bad == IF schema THEN fails ELSE 1..Len(rows)
            r   == IF rows = <<>> THEN [store |-> leads, saved |-> 0]
                   ELSE SaveLeads(leads, rows, bad, now)
        IN  /\ leads' = r.store
            /\ last' = "save"
            /\ pre' = leads
            /\ batch' = rows
            /\ inp' = bad
            /\ ret' = r.saved
            /\ raised' = FALSE
            /\ contactedAt' = Extend(contactedAt, Len(r.store))
            /\ NoHistory
            /\ NoPipeline
            /\ UNCHANGED <<now, enabled, schema>>

SaveLeadsCall == SaveLeadsUpTo(MaxStore)

\* save_leads of Database.py, called on a store with its table.
SaveLeadsOneCommit ==
    \E rows \in SeqsUpTo(AdapterRows(now), MaxStore - Len(leads)) :
      \E outs \in [1..Len(rows) -> {"ok", "pyfail", "dbfail"}] :
        LET r == IF rows = <<>> THEN [store |-> leads, saved |-> 0]
                 ELSE SaveRowsOneCommit(leads, leads, rows, 1, outs, FALSE, 0, now)
        IN  /\ leads' = r.store
            /\ last' = "save_batch"
            /\ pre' = leads
            /\ batch' = rows
            /\ inp' = outs
            /\ ret' = r.saved
            /\ raised' = FALSE
            /\ contactedAt' = Extend(contactedAt, Len(r.store))
            /\ NoHistory
            /\ NoPipeline
            /\ UNCHANGED <<now, enabled, schema>>

LoadLeadsCall ==
    \E stage \in {"", "new", "contacted"}, limit \in 1..MaxStore :
        /\ last' = "load"
        /\ pre' = leads
        /\ batch' = IF schema THEN LoadLeads(leads, stage, limit) ELSE <<>>
        /\ inp' = <<stage, limit>>
        /\ ret' = 0
        /\ raised' = ~schema
        /\ NoHistory
        /\ NoPipeline
        /\ UNCHANGED <<leads, now, enabled, contactedAt, schema>>

UpdateLeadStageCall ==
    \E id \in 1..MaxStore, stage \in Stages :
        /\ leads' = IF schema THEN UpdateLeadStage(leads, id, stage, now) ELSE leads
        /\ last' = "update"
        /\ pre' = leads
        /\ batch' = <<>>
        /\ inp' = <<id, stage>>
        /\ ret' = 0
        /\ raised' = ~schema
        /\ contactedAt' =
              [i \in 1..Len(leads) |->
                  IF schema /\ leads[i].id = id /\ leads[i].stage = "new" /\ stage # "new"
                  THEN now ELSE contactedAt[i]]
        /\ NoHistory
        /\ NoPipeline
        /\ UNCHANGED <<now, enabled, schema>>

CountByStageCall ==
    /\ last' = "count"
    /\ pre' = leads
    /\ batch' = <<>>
    /\ inp' = <<>>
    /\ ret' = IF schema THEN CountByStage(leads) ELSE 0
    /\ raised' = ~schema
    /\ NoHistory
    /\ NoPipeline
    /\ UNCHANGED <<leads, now, enabled, contactedAt, schema>>

RunFullPipeline ==
    \E scrape_fresh \in BOOLEAN, enrich \in BOOLEAN, outreach \in BOOLEAN :
      \E w \in WorldsFor(scrape_fresh, enrich, outreach) :
      \E r \in { RunFullPipelineOn(leads, schema, scrape_fresh, enrich, outreach, w,
                                    enabled, now) } :
        LET p == r.end
        IN  /\ Len(p.store) <= MaxStore
            /\ leads' = p.store
            /\ schema' = p.schema
            /\ results' = p.results
            /\ steps' = p.steps
            /\ last' = "pipeline"
            /\ pre' = leads
            /\ batch' = <<>>
            /\ inp' = <<scrape_fresh, enrich, outreach>>
            /\ msgs' = p.msgs
            /\ calls' = <<>>
            /\ ret' = 0
            /\ raised' = FALSE
            /\ contactedAt' =
                  [i \in 1..Len(p.store) |->
                      IF r.before[i].stage = "new" /\ p.store[i].stage = "contacted"
                      THEN now
                      ELSE IF i <= Len(contactedAt) THEN contactedAt[i] ELSE NoTime]
            /\ UNCHANGED <<now, enabled, tasks>>

Quiet ==
    /\ last = "init"
    /\ pre = leads
    /\ batch = <<>>
    /\ inp = <<>>
    /\ msgs = <<>>
    /\ calls = <<>>
    /\ ret = 0
    /\ raised = FALSE
    /\ results = NoResults
    /\ steps = <<>>
    /\ tasks = NoTasks

InitEmpty ==
    /\ schema = TRUE
    /\ leads = <<>>
    /\ now = 0
    /\ enabled \in BOOLEAN
    /\ contactedAt = <<>>
    /\ Quiet

(***************************************************************************)
(* Stores the program can be in, for the specifications that start from a  *)
(* populated table: row i is the i-th lead saved, every row saved at tick  *)
(* 0, a contacted row moved there by run_outreach at the tick it was last  *)
(* updated.                                                                *)
(***************************************************************************)
CompanyOf(i) == [k \in 1..i |-> "x"]

Row(i, sh) ==
    [ id         |-> i,
      name       |-> CompanyOf(i),
      company    |-> CompanyOf(i),
      phone      |-> sh.phone,
      email      |-> sh.email,
      website    |-> sh.website,
      stage      |-> sh.stage,
      created_at |-> 0,
      updated_at |-> sh.updated_at ]

StoresOf(shapes, n) ==
    UNION { { [i \in 1..k |-> Row(i, f[i])] : f \in [1..k -> shapes] } : k \in 0..n }

ContactedAtOf(store) ==
    [i \in 1..Len(store) |->
        IF store[i].stage = "new" THEN NoTime ELSE store[i].updated_at]

InitFrom(stores, clock, modes) ==
    /\ leads \in stores
    /\ now \in clock
    /\ enabled \in modes
    /\ contactedAt = ContactedAtOf(leads)
    /\ schema = TRUE
    /\ Quiet

\* A store whose table was never created.
InitFresh ==
    /\ schema = FALSE
    /\ leads = <<>>
    /\ now = 0
    /\ enabled \in BOOLEAN
    /\ contactedAt = <<>>
    /\ Quiet

(***************************************************************************)
(* Specifications.                                                         *)
(***************************************************************************)
\* Scrape runs on a store that starts empty.
NextScrape == IndiaMartRun(QueryRuns, ScrapeWorlds)

SpecScrape == InitEmpty /\ [][NextScrape]_vars

\* run_outreach on stores of new and contacted leads.
OutreachShapes ==
    [stage : {"new", "contacted"}, phone : {NoStr, P1, PShort}, email : {""},
     website : {""}, updated_at : {0}]

InitOutreach == InitFrom(StoresOf(OutreachShapes, MaxLeads), {1}, BOOLEAN)

NextOutreach == RunOutreach

SpecOutreach == InitOutreach /\ [][NextOutreach]_vars

\* Stage writes: run_outreach and inbound replies on leads of every stage.
StageShapes ==
    [stage : Stages, phone : {NoStr, P1}, email : {""}, website : {""},
     updated_at : {0}]

InitStage == InitFrom(StoresOf(StageShapes, MaxFollowLeads), {1}, BOOLEAN)

NextStage == RunOutreach \/ HandleInboundWhatsapp

SpecStage == InitStage /\ [][NextStage]_vars

\* run_followups at every tick of the cadence, on leads contacted at tick 0
\* or 1; and, in simulation mode, on a store of one contacted lead more than
\* run_followups loads.
MaxNow == MaxDays * TicksPerDay

FollowupShapes ==
    [stage : {"new", "contacted"}, phone : {NoStr, P1}, email : {""},
     website : {""}, updated_at : {0, 1}]

FullBatchStore ==
    [i \in 1..(FOLLOWUP_LIMIT + 1) |->
        Row(i, [stage |-> "contacted", phone |-> P1, email |-> "", website |-> "",
                updated_at |-> 0])]

InitFollowup ==
    \/ InitFrom(StoresOf(FollowupShapes, MaxFollowLeads), 1..MaxNow, BOOLEAN)
    \/ InitFrom({FullBatchStore}, 1..MaxNow, {FALSE})

NextFollowup == RunFollowups

SpecFollowup == InitFollowup /\ [][NextFollowup]_vars

\* The enrichment cascade on stores of leads with and without contacts.
EnrichShapes ==
    [stage : {"new"}, phone : {NoStr, P1}, email : {"", "own@acme.example"},
     website : {"", "https://own.acme.example", IndiamartLink}, updated_at : {0}]

InitEnrich == InitFrom(StoresOf(EnrichShapes, MaxEnrichLeads), {1}, {FALSE})

NextEnrich == BulkEnrich(EnrichWorlds, MaxEnrichLeads)

SpecEnrich == InitEnrich /\ [][NextEnrich]_vars

\* One enrichment run on each store: every lead that find_all is called on,
\* with every answer of the providers.
EnrichOnce ==
    /\ last = "init"
    /\ BulkEnrich(EnrichWorlds, MaxEnrichLeads)

NextCascade == EnrichOnce

SpecCascade == InitEnrich /\ [][NextCascade]_vars

\* The life of a lead: outreach, enrichment, follow-ups and inbound replies
\* as the clock advances, from stores of new leads.
LifeShapes ==
    [stage : {"new"}, phone : {NoStr, P1}, email : {""}, website : {""},
     updated_at : {0}]

Init == InitFrom(StoresOf(LifeShapes, MaxEnrichLeads), {0}, BOOLEAN)

Next ==
    \/ RunOutreach
    \/ BulkEnrich(LifeWorlds, MaxEnrichLeads)
    \/ RunFollowups
    \/ HandleInboundWhatsapp
    \/ Tick(MaxShortNow)

Spec == Init /\ [][Next]_vars

\* Bulk enrichment with a limit on stores that hold complete leads (phone
\* and email) beside leads that miss one.
LimitShapes ==
    [stage : {"new"}, phone : {NoStr, P1}, email : {"", "own@acme.example"},
     website : {"", "https://own.acme.example"}, updated_at : {0}]

InitLimit == InitFrom(StoresOf(LimitShapes, MaxStore), {1}, {FALSE})

NextLimit == BulkEnrich(LifeWorlds, MaxEnrichLeads)

SpecLimit == InitLimit /\ [][NextLimit]_vars

\* A store before and after init_db.
InitStore == InitFresh \/ InitEmpty

\* save_leads calls of the source adapters, before and after init_db.
NextSave == InitDb \/ SaveLeadsCall

SpecSave == InitStore /\ [][NextSave]_vars

\* The store operations and the two schedulers, on a store whose table may
\* not exist yet.
NextStore ==
    \/ InitDb
    \/ SaveLeadsCall
    \/ LoadLeadsCall
    \/ UpdateLeadStageCall
    \/ CountByStageCall
    \/ RunOutreach
    \/ RunFollowups

SpecStore == InitStore /\ [][NextStore]_vars

\* run_full_pipeline with every choice of stages, on a fresh store and on
\* stores of new leads.
\* The phones given to the normalization: a country code, a trunk zero or
\* blanks before a number written bare, with a blank and a dash, with
\* brackets, too short, or with no digit.
PhonePrefixes ==
    { NoStr, <<"+">>, <<"+", "9", "1">>, <<"+", "9", "1", " ">>, <<"9", "1">>,
      <<"0">>, <<" ">> }

PhoneBodies ==
    { P1, P2, PShort, NoStr,
      <<"9", "8", "7", "6", "5", "-", "4", "3", "2", "1", "0">>,
      <<"(", "9", "8", "7", ")", "6", "5", "4", "3", "2", "1", "0">>,
      <<"n", "/", "a">> }

PhoneInputs == { a \o b : a \in PhonePrefixes, b \in PhoneBodies }

\* The phone "+91 98765-43210".
PlusDashed ==
    <<"+", "9", "1", " ", "9", "8", "7", "6", "5", "-", "4", "3", "2", "1", "0">>

InitNormalize ==
    /\ schema = TRUE
    /\ leads = <<>>
    /\ now = 0
    /\ enabled = FALSE
    /\ contactedAt = <<>>
    /\ last = "init"
    /\ pre = <<>>
    /\ batch = <<>>
    /\ inp \in { <<phone>> : phone \in PhoneInputs }
    /\ msgs = <<>>
    /\ calls = <<>>
    /\ ret = 0
    /\ raised = FALSE
    /\ results = NoResults
    /\ steps = <<>>
    /\ tasks = NoTasks

\* The step of `by` that has taken the phone inp[Len(inp)] to the phone
\* `digits`; a phone is followed through one of the two only.
Normalized(digits, by) ==
    /\ last \in {"init", by}
    /\ Len(inp) <= MaxNormalize
    /\ inp' = Append(inp, digits)
    /\ last' = by
    /\ UNCHANGED <<leads, now, enabled, pre, batch, msgs, calls, ret, raised,
                   contactedAt, schema, results, steps, tasks>>

\* send: digits = ''.join(filter(str.isdigit, str(to_phone)))[-10:]
SendDigits == Normalized(PhoneDigits(inp[Len(inp)]), "send")

\* find_all, Source 4: lead["phone"] after it.
FindAllDigits ==
    Normalized(AfterWhatsApp([phone |-> inp[Len(inp)]]).phone, "find_all")

NextNormalize == SendDigits \/ FindAllDigits

SpecNormalize == InitNormalize /\ [][NextNormalize]_vars

\* run_outreach in background tasks, between the turns of which inbound
\* replies are handled and other runs take their turns.
InitBackground ==
    InitFrom(StoresOf([stage : {"new"}, phone : {NoStr, P1}, email : {""},
                       website : {""}, updated_at : {0}], MaxStageLeads),
             {1}, BOOLEAN)

NextBackground ==
    \/ StartRunOutreach
    \/ RunOutreachLead
    \/ RunOutreachReturn
    \/ HandleInboundWith(ClassifierStages)

SpecBackground == InitBackground /\ [][NextBackground]_vars

\* save_leads of Database.py, batch after batch.
NextBatchSave == SaveLeadsOneCommit

SpecBatchSave == InitEmpty /\ [][NextBatchSave]_vars

\* ApolloSource.search_leads, called again and again.
NextApollo == ApolloSearchLeads

SpecApollo == InitEmpty /\ [][NextApollo]_vars

\* save_leads, run_outreach and handle_inbound_whatsapp on one store, the
\* classifier free in what it returns.
InitAnyStage == InitEmpty

NextAnyStage ==
    \/ SaveLeadsUpTo(MaxStageLeads)
    \/ RunOutreach
    \/ HandleInboundWith(AnyClassifierStages)

SpecAnyStage == InitAnyStage /\ [][NextAnyStage]_vars

InitPipeline ==
    \/ InitFresh
    \/ InitFrom(StoresOf(LifeShapes, MaxEnrichLeads), {0}, {TRUE})

NextPipeline == RunFullPipeline

SpecPipeline == InitPipeline /\ [][NextPipeline]_vars

(***************************************************************************)
(* Claims about the scrape run, checked under SpecScrape.                  *)
(***************************************************************************)
RowsWithKey(store, k) == { i \in 1..Len(store) : DedupKey(store[i]) = k }

\* C1: after any sequence of scrape runs the leads table holds at most one
\* row per dedup key (lower-cased, trimmed company, or name when the company
\* is empty).
C1_OneRowPerDedupKey ==
    \A i, j \in 1..Len(leads) :
        i # j => DedupKey(leads[i]) # DedupKey(leads[j])

\* C2: a candidate whose dedup key is already in the store adds no row, every
\* field empty on the stored row and non-empty on the candidate is filled
\* from the candidate, and no non-empty stored field changes.
C2_DuplicateFillsGaps ==
    last = "scrape" =>
        /\ \A n \in 1..Len(batch) :
              LET k == DedupKey(batch[n])
              IN  /\ RowsWithKey(pre, k) # {} =>
                        Cardinality(RowsWithKey(leads, k)) = Cardinality(RowsWithKey(pre, k))
                  /\ \A i \in RowsWithKey(leads, k) :
                        /\ leads[i].phone = NoStr => batch[n].phone = NoStr
                        /\ leads[i].email = "" => batch[n].email = ""
        /\ \A i \in 1..Len(pre) :
              /\ pre[i].phone # NoStr => leads[i].phone = pre[i].phone
              /\ pre[i].email # "" => leads[i].email = pre[i].email
              /\ pre[i].website # "" => leads[i].website = pre[i].website

(***************************************************************************)
(* Claims about stage writes, checked under SpecStage.                     *)
(***************************************************************************)
StageRank(st) ==
    CASE st = "new" -> 1
      [] st = "contacted" -> 2
      [] st = "pitched" -> 3
      [] st = "closed" -> 4
      [] OTHER -> 0

\* C3: the stage writes of run_outreach and of inbound-reply handling only
\* move a lead forward along new, contacted, pitched, closed: never pitched
\* back to new or contacted, never a closed lead to another stage.
C3_StageNeverRegresses ==
    last \in {"outreach", "inbound"} =>
        \A i \in 1..Len(pre) :
            StageRank(leads[i].stage) >= StageRank(pre[i].stage)

(***************************************************************************)
(* Claims about run_outreach, checked under SpecOutreach.                  *)
(***************************************************************************)
Usable(phone) == Len(PhoneDigits(phone)) = PHONE_DIGITS

Eligible(store) ==
    { i \in 1..Len(store) : store[i].stage = "new" /\ Usable(store[i].phone) }

MovedToContacted ==
    { i \in 1..Len(pre) : pre[i].stage = "new" /\ leads[i].stage = "contacted" }

ColdMessages == { k \in 1..Len(msgs) : msgs[k].ev = "cold" }

AllOk == \A k \in 1..Len(inp) : inp[k] = "ok"

\* C4: with E eligible leads (stage new, usable phone) in the store and cap N,
\* a run_outreach whose every dispatch succeeds moves exactly min(E, N) of
\* them to contacted and leaves the other eligible leads at new, whatever
\* else the store holds.
C4_MovesMinOfEligibleAndCap ==
    (last = "outreach" /\ AllOk) =>
        /\ Cardinality(Eligible(pre) \cap MovedToContacted)
             = Min(Cardinality(Eligible(pre)), MAX_OUTREACH_DAY)
        /\ \A i \in Eligible(pre) \ MovedToContacted : leads[i].stage = "new"

\* C5: one run_outreach hands at most MAX_OUTREACH_DAY first-contact messages
\* to the transport and moves at most MAX_OUTREACH_DAY leads from new to
\* contacted, whatever the store holds and however the sends end.
C5_AtMostCapPerRun ==
    last = "outreach" =>
        /\ Cardinality(ColdMessages) <= MAX_OUTREACH_DAY
        /\ Cardinality(MovedToContacted) <= MAX_OUTREACH_DAY

\* C5 witness: a run on a store of more eligible leads than the cap that
\* handed the transport exactly the cap.
C5_CapReached ==
    /\ last = "outreach"
    /\ Cardinality(Eligible(pre)) > MAX_OUTREACH_DAY
    /\ Cardinality(ColdMessages) = MAX_OUTREACH_DAY

Simulated(k) == batch[k].phone # NoStr

\* C9 as claimed: with WHATSAPP_ENABLED false, run_outreach moves each loaded
\* lead that has a phone to contacted, refreshes its updated_at and counts
\* it, without calling the transport.
C9_SimulationAdvancesEveryLead ==
    (last = "outreach" /\ ~enabled) =>
        /\ msgs = <<>>
        /\ \A k \in 1..Len(batch) :
              Simulated(k) =>
                  /\ leads[batch[k].id].stage = "contacted"
                  /\ leads[batch[k].id].updated_at = now
        /\ ret = Cardinality({ k \in 1..Len(batch) : Simulated(k) })

\* C9 as amended: with WHATSAPP_ENABLED false, run_outreach moves each loaded
\* lead that has a phone and whose stage write the store commits to
\* contacted, refreshes its updated_at and counts it, without calling the
\* transport; a lead whose stage write raises stays new and is not counted.
C9_SimulationAdvancesCommitted ==
    (last = "outreach" /\ ~enabled) =>
        /\ msgs = <<>>
        /\ \A k \in 1..Len(batch) :
              Simulated(k) =>
                  IF inp[k] = "dbfail"
                  THEN leads[batch[k].id] = pre[batch[k].id]
                  ELSE /\ leads[batch[k].id].stage = "contacted"
                       /\ leads[batch[k].id].updated_at = now
        /\ ret = Cardinality({ k \in 1..Len(batch) : Simulated(k) /\ inp[k] # "dbfail" })

\* C9 witness: a simulated run that moved a full batch, a lead whose phone
\* has no 10 digits among them, without a message.
C9_SimulatedBatch ==
    /\ last = "outreach"
    /\ ~enabled
    /\ ret = MAX_OUTREACH_DAY
    /\ msgs = <<>>
    /\ \E k \in 1..Len(batch) :
          /\ batch[k].phone = PShort
          /\ leads[batch[k].id].stage = "contacted"
          /\ leads[batch[k].id].updated_at > pre[batch[k].id].updated_at

(***************************************************************************)
(* Claims about run_followups, checked under SpecFollowup.                 *)
(***************************************************************************)
FollowupsTo(l) == { k \in 1..Len(msgs) : msgs[k].ev = "followup" /\ msgs[k].id = l.id }

\* C6: run_followups sends a follow-up to a contacted lead with a phone if
\* and only if the whole days since its updated_at (created_at when that is
\* empty) are one of FOLLOWUP_DAYS = [2, 5, 10], and the follow-up number is
\* 1 plus the position of that day in the list; at any other day count the
\* lead is not messaged.
C6_FollowupExactlyOnCadenceDays ==
    last = "followups" =>
        \A i \in 1..Len(leads) :
            (leads[i].stage = "contacted" /\ leads[i].phone # NoStr) =>
                LET d == DaysSince(Anchor(leads[i]), now)
                IN  /\ FollowupsTo(leads[i]) # {} <=> InFollowupDays(d)
                    /\ \A k \in FollowupsTo(leads[i]) : msgs[k].n = FollowupNum(d)

(***************************************************************************)
(* Claims about the enrichment cascade, checked under SpecEnrich.          *)
(***************************************************************************)
\* C7: enrichment only fills gaps: find_all and the write-back of
\* BulkContactEnricher.run never replace a phone, email or website that was
\* non-empty on the lead by a different value.
C7_EnrichmentOnlyFillsGaps ==
    last = "enrich" =>
        \A i \in 1..Len(pre) :
            /\ pre[i].phone # NoStr => leads[i].phone = pre[i].phone
            /\ pre[i].email # "" => leads[i].email = pre[i].email
            /\ pre[i].website # "" => leads[i].website = pre[i].website

CallsFor(id) == SelectSeq(calls, LAMBDA c : c.id = id)

Provs(cs) == [k \in 1..Len(cs) |-> cs[k].prov]

\* C8: the cascade of find_all tries the providers in the order directory
\* lookup, web search, website fetch; the web search is called only if email
\* or website is still empty after the directory lookup, the website fetch
\* only if email is still empty after the web search; so no provider is
\* called for a field that an earlier one filled.
C8_CascadeShortCircuits ==
    last = "enrich" =>
        \A n \in 1..Len(batch) :
            LET cs == CallsFor(batch[n].id)
            IN  /\ Provs(cs) \in { <<"justdial">>, <<"justdial", "google">>,
                                    <<"justdial", "website">>,
                                    <<"justdial", "google", "website">> }
                /\ \A k \in 1..Len(cs) :
                      /\ cs[k].prov = "google" => (cs[k].email = "" \/ cs[k].website = "")
                      /\ cs[k].prov = "website" => cs[k].email = ""

\* C8 witness: a lead without email or web site for which the directory
\* lookup supplied phone, email and web site, and no later provider was
\* called.
C8_DirectoryAloneSuffices ==
    /\ last = "enrich"
    /\ \E n \in 1..Len(batch) :
          /\ batch[n].email = ""
          /\ batch[n].website = ""
          /\ inp[n].jd.email # ""
          /\ inp[n].jd.website # ""
          /\ inp[n].google.email # ""
          /\ Provs(CallsFor(batch[n].id)) = <<"justdial">>

(***************************************************************************)
(* Claims about the follow-up anchor, checked under Spec.                  *)
(***************************************************************************)
\* C10: the timestamp run_followups counts the days of a contacted lead from
\* is the moment run_outreach moved the lead to contacted; no later
\* operation on the lead (a bulk enrichment that fills its email or phone in
\* particular) changes it.
C10_FollowupAnchorIsFirstContact ==
    \A i \in 1..Len(leads) :
        (leads[i].stage = "contacted" /\ contactedAt[i] # NoTime) =>
            Anchor(leads[i]) = contactedAt[i]

(***************************************************************************)
(* Claims about failures and the count of run_outreach, checked under      *)
(* SpecOutreach.                                                           *)
(***************************************************************************)
HandedCold(l) == \E m \in 1..Len(msgs) : msgs[m].ev = "cold" /\ msgs[m].id = l.id

\* C11: in run_outreach a failure while messaging one lead (the transport
\* failing, or message generation raising inside send_cold_outreach) is
\* contained to that lead: every other lead of the loaded batch that has a
\* usable phone is still handed to the transport in the same run.
C11_FailureContainedToOneLead ==
    (last = "outreach" /\ enabled) =>
        \A k \in 1..Len(batch) :
            (Usable(batch[k].phone) /\ inp[k] # "genraise") => HandedCold(batch[k])

\* C12: the number run_outreach returns is the number of leads whose stored
\* stage went from new to contacted in that run, in real-send and in
\* simulation mode, and also when a stage write to the store fails.
C12_CountIsLeadsMoved ==
    (last = "outreach" /\ ~raised) => ret = Cardinality(MovedToContacted)

BatchIds == { batch[k].id : k \in 1..Len(batch) }

\* C14: run_outreach changes the stage only of leads that had stage new and a
\* non-empty phone when loaded; a loaded lead without a phone keeps its row
\* (stage new, updated_at) as it was, and is not counted.
C14_OnlyLoadedLeadsWithPhoneMove ==
    last = "outreach" =>
        /\ \A i \in 1..Len(pre) :
              leads[i].stage # pre[i].stage =>
                  /\ pre[i].stage = "new"
                  /\ pre[i].phone # NoStr
                  /\ i \in BatchIds
        /\ \A k \in 1..Len(batch) :
              batch[k].phone = NoStr => leads[batch[k].id] = pre[batch[k].id]
        /\ ret <= Cardinality({ k \in 1..Len(batch) : batch[k].phone # NoStr })

\* C14 witness: a run whose batch held a lead without a phone, which stayed
\* as it was, and a lead with one, which moved and was counted.
C14_SkippedBesideMoved ==
    /\ last = "outreach"
    /\ ret = 1
    /\ \E k \in 1..Len(batch) :
          batch[k].phone = NoStr /\ leads[batch[k].id].stage = "new"
    /\ \E k \in 1..Len(batch) :
          batch[k].phone # NoStr /\ leads[batch[k].id].stage = "contacted"

(***************************************************************************)
(* Claims about run_full_pipeline, checked under SpecPipeline.             *)
(***************************************************************************)
StagesAsked ==
    SelectSeq(<<"scrape", "enrich", "outreach">>,
              LAMBDA st : \/ st = "scrape" /\ inp[1]
                          \/ st = "enrich" /\ inp[2]
                          \/ st = "outreach" /\ inp[3])

Counter(st) ==
    CASE st = "scrape" -> results.scraped
      [] st = "enrich" -> results.enriched
      [] st = "outreach" -> results.messaged

\* C13: run_full_pipeline never raises and always returns a result with
\* scraped, enriched, messaged and errors: the stages asked for run in the
\* order scrape, enrich, outreach; a stage that raises appends exactly one
\* entry to errors and leaves its counter at 0, and every later stage asked
\* for still runs.
C13_PipelineContainsStageErrors ==
    last = "pipeline" =>
        /\ ~raised
        /\ DOMAIN results = {"scraped", "enriched", "messaged", "errors"}
        /\ [k \in 1..Len(steps) |-> steps[k].stage] = StagesAsked
        /\ Len(results.errors) = Cardinality({ k \in 1..Len(steps) : steps[k].raised })
        /\ \A k \in 1..Len(steps) : steps[k].raised => Counter(steps[k].stage) = 0

\* C13 witness: a run of the three stages in which scrape and enrich raised
\* and the outreach still messaged a lead.
C13_OutreachAfterTwoErrors ==
    /\ last = "pipeline"
    /\ Len(steps) = 3
    /\ steps[1].raised
    /\ steps[2].raised
    /\ ~steps[3].raised
    /\ Len(results.errors) = 2
    /\ results.messaged >= 1

(***************************************************************************)
(* Claims about the store operations, checked under SpecSave and SpecStore. *)
(***************************************************************************)
TenDigits(phone) == Len(phone) = PHONE_DIGITS /\ \A k \in 1..Len(phone) : IsDigit(phone[k])

\* C15: in every reachable store, after any save_leads calls from the source
\* adapters, each stored phone is empty or exactly 10 digits; a phone that
\* does not normalize to 10 digits is dropped, not stored.
C15_StoredPhoneEmptyOrTenDigits ==
    \A i \in 1..Len(leads) : leads[i].phone = NoStr \/ TenDigits(leads[i].phone)

KeptUpTo(i) == Cardinality({ j \in 1..i : j \notin inp })

\* C16: in save_leads a row whose insert fails is skipped, every other row of
\* the batch is still inserted, after the rows the store held, and the count
\* returned is the number of rows persisted.
C16_FailedRowSkippedOthersSaved ==
    last = "save" =>
        /\ ~raised
        /\ ret = Len(leads) - Len(pre)
        /\ ret = KeptUpTo(Len(batch))
        /\ SubSeq(leads, 1, Len(pre)) = pre
        /\ \A i \in 1..Len(batch) :
              i \notin inp =>
                  LET row == leads[Len(pre) + KeptUpTo(i)]
                  IN  /\ row.company = batch[i].company
                      /\ row.phone = batch[i].phone

\* C16 witness: a batch of two whose first insert failed on a store with its
\* table, and whose second row was persisted and counted.
C16_SecondRowSavedAfterFailure ==
    /\ last = "save"
    /\ schema
    /\ Len(batch) = 2
    /\ inp = {1}
    /\ ret = 1
    /\ batch[1].company # batch[2].company
    /\ leads[Len(leads)].company = batch[2].company

StoreOperations == {"save", "load", "update", "count", "outreach", "followups"}

\* C18: each store operation (save_leads, load_leads, update_lead_stage,
\* count_by_stage) succeeds when it is the first operation on a store whose
\* schema was never created, and creates the schema itself; run_outreach and
\* run_followups do not fail on a fresh store.
C18_OperationsCreateSchema ==
    last \in StoreOperations => (~raised /\ schema)

(***************************************************************************)
(* Claims about the stored stage names, checked under SpecAnyStage.        *)
(***************************************************************************)
\* C19: in every reachable store, after any sequence of save_leads calls,
\* outreach runs and inbound replies handled with any classifier output,
\* the stage of each lead is one of new, contacted, pitched, closed.
C19_StoredStageInFunnel ==
    \A i \in 1..Len(leads) : leads[i].stage \in Stages

(***************************************************************************)
(* Claims about the phone normalization, checked under SpecNormalize.      *)
(***************************************************************************)
\* C20: the phone normalization of send and of find_all (strip every
\* non-digit, keep the last 10 digits) is idempotent: a phone of exactly 10
\* digits comes back unchanged, normalizing a second time changes nothing
\* that the first time produced, and "+91 98765-43210" gives "9876543210".
C20_NormalizationIdempotent ==
    Len(inp) >= 2 =>
        /\ TenDigits(inp[1]) => inp[2] = inp[1]
        /\ \A k \in 3..Len(inp) : inp[k] = inp[2]
        /\ inp[1] = PlusDashed => inp[2] = P1

\* "+91 98765-43210" has been normalized twice by send.
C20_PlusDashedTwice ==
    /\ last = "send"
    /\ Len(inp) = 3
    /\ inp[1] = PlusDashed
    /\ inp[2] = P1
    /\ inp[3] = P1

(***************************************************************************)
(* Claims about repeated runs of run_outreach, checked under SpecOutreach. *)
(***************************************************************************)
\* Lead id was sent a first-contact message by the run that loaded the rows
\* b, met the outcomes o and handed over the messages ms: the message to
\* it was handed to the transport and the transport took it.
ReceivedCold(ms, b, o, id) ==
    \E m \in 1..Len(ms), k \in 1..Len(b) :
        /\ ms[m].ev = "cold"
        /\ ms[m].id = id
        /\ b[k].id = id
        /\ o[k] # "txfail"

\* C24: no lead receives more than one first-contact message over any
\* sequence of run_outreach invocations, also when a send succeeds and the
\* stage write after it fails: a lead that one run sent the message to is
\* not sent it again by the next run.
C24_AtMostOneColdMessage ==
    [][ \A id \in 1..Len(leads) :
            ~(ReceivedCold(msgs, batch, inp, id) /\ ReceivedCold(msgs', batch', inp', id))
      ]_vars

\* The leads of a store in stage contacted.
Contacted(store) == { i \in 1..Len(store) : store[i].stage = "contacted" }

\* C29: for the same store, a simulation-mode run_outreach and a real-mode
\* run_outreach whose transport accepts every message leave the same leads
\* in stage contacted and return the same count, also for leads whose
\* phone is non-empty without 10 digits: the run that was made, every write
\* and every send succeeding, ends as the run in the other mode would.
C29_SimulationEqualsAcceptedRealRun ==
    (last = "outreach" /\ AllOk /\ ~raised) =>
        LET other == RunOutreachOn(pre, inp, ~enabled, now)
        IN  /\ Contacted(leads) = Contacted(other.store)
            /\ ret = other.sent

\* C27: if run_outreach is invoked repeatedly and every dispatch succeeds,
\* every stored lead with stage new and a usable phone is eventually moved
\* to contacted, also when MAX_OUTREACH_DAY or more newer leads of stage new
\* have no phone.  With every dispatch succeeding a run is a function of
\* the store, so a run that moves no lead is repeated by every run after
\* it: each run that leaves such a lead behind has moved some lead.
C27_EveryUsableNewLeadIsReached ==
    (last = "outreach" /\ AllOk /\ ~raised) =>
        (Eligible(leads) # {} => MovedToContacted # {})

(***************************************************************************)
(* Claims about the lead an inbound reply is matched to, checked under     *)
(* SpecStage.                                                              *)
(***************************************************************************)
\* The leads whose stage the last operation changed.
StageChanged == { i \in 1..Len(pre) : leads[i].stage # pre[i].stage }

\* C28: handle_inbound_whatsapp changes the stage of at most one lead, and
\* only of a lead whose stored phone equals the 10-digit number of the
\* sender; a message whose sender matches no stored lead (a sender with
\* fewer than 10 digits or with no digit included) changes no stage.
C28_InboundChangesOnlyTheSender ==
    last = "inbound" =>
        /\ Cardinality(StageChanged) <= 1
        /\ \A i \in StageChanged :
              /\ Len(PhoneDigits(inp[1])) = PHONE_DIGITS
              /\ pre[i].phone = PhoneDigits(inp[1])

(***************************************************************************)
(* Claims about repeated runs of run_followups, checked under SpecFollowup. *)
(***************************************************************************)
\* Lead id was sent follow-up number n by the run that loaded the rows b,
\* met the outcomes o and handed over the messages ms.
ReceivedFollowup(ms, b, o, id, n) ==
    \E m \in 1..Len(ms), k \in 1..Len(b) :
        /\ ms[m].ev = "wa_followup"
        /\ ms[m].id = id
        /\ ms[m].n = n
        /\ b[k].id = id
        /\ o[k] # "txfail"

\* C26: over any number of run_followups invocations a contacted lead is
\* sent each follow-up number (1, 2, 3) at most once, also when
\* run_followups is invoked more than once on the same day: a lead that one
\* run sent follow-up n is not sent follow-up n by the next run.
C26_EachFollowupAtMostOnce ==
    [][ \A id \in 1..Len(leads), n \in 1..Len(FOLLOWUP_DAYS) :
            ~(/\ ReceivedFollowup(msgs, batch, inp, id, n)
              /\ ReceivedFollowup(msgs', batch', inp', id, n))
      ]_vars

(***************************************************************************)
(* Claims about run_outreach as a background task, checked under           *)
(* SpecBackground.                                                         *)
(***************************************************************************)
\* C25: when run_outreach runs as a background task and interleaves with
\* handle_inbound_whatsapp or with a second run_outreach, no turn of a task
\* moves a lead's stored stage backward (pitched or closed back to
\* contacted), and no lead that run_outreach already moved to contacted on
\* a message it sent is sent the first-contact message again.
C25_NoRegressNoSecondColdWhenInterleaved ==
    last = "lead" =>
        \A id \in 1..Len(leads) :
            /\ StageRank(leads[id].stage) >= StageRank(pre[id].stage)
            /\ ~(/\ ReceivedCold(msgs, batch, inp, id)
                 /\ pre[id].stage # "new"
                 /\ contactedAt[id] # NoTime)

(***************************************************************************)
(* Claims about the write-back of the enrichment, checked under            *)
(* SpecCascade.                                                            *)
(***************************************************************************)
\* C22: after BulkContactEnricher.run, for each processed lead whose UPDATE
\* the store accepts, every field the cascade changed (phone, email or
\* website) is in the store; a lead for which the cascade found only a new
\* website has that website stored.
C22_EveryChangedFieldPersisted ==
    last = "enrich" =>
        \A k \in 1..Len(batch) :
            LET lead     == batch[k]
                enriched == FindAll(lead, inp[k]).lead
            IN  inp[k].db = "ok" =>
                    /\ leads[lead.id].phone = enriched.phone
                    /\ leads[lead.id].email = enriched.email
                    /\ leads[lead.id].website = enriched.website

(***************************************************************************)
(* Claims about the source adapters, checked under SpecApollo.             *)
(***************************************************************************)
\* The searches that failed: a refusal, a server error, nothing in time.
FailedSearch(o) == o.status # "200"

\* C21: in every source adapter, here ApolloSource.search_leads, a query
\* that fails (timeout, any non-200 response including 403) yields no
\* record and the adapter issues the next query of its list, as long as the
\* result cap is not reached.
C21_FailedQueryGoesOnToNext ==
    last = "apollo" =>
        \A k \in 1..Len(calls) :
            (/\ FailedSearch(inp[calls[k].search])
             /\ calls[k].search < APOLLO_SEARCHES
             /\ calls[k].held < ret)
            => /\ k < Len(calls)
               /\ calls[k + 1].search = calls[k].search + 1
               /\ calls[k + 1].held = calls[k].held

\* C23: no source adapter returns more records than its per-run cap, here
\* ApolloSource.search_leads(max): it returns at most max leads.
C23_AtMostCapReturned ==
    last = "apollo" => Len(batch) <= ret

(***************************************************************************)
(* Claims about save_leads of Database.py, checked under SpecBatchSave.    *)
(***************************************************************************)
\* C30: in the Database.py variant of save_leads, with one connection and
\* a single commit for the whole batch, the returned saved count equals
\* the number of rows persisted after the commit, also when one row's
\* insert fails in the middle of the batch.
C30_BatchCountIsRowsPersisted ==
    last = "save_batch" => ret = Len(leads) - Len(pre)

(***************************************************************************)
(* Claims about the limit of the bulk enrichment, checked under SpecLimit. *)
(***************************************************************************)
Missing(store) == { i \in 1..Len(store) : MissingContact(store[i]) }

\* C17: BulkContactEnricher.run(limit=L) applies the cascade to min(L, M)
\* leads when M stored leads miss phone or email, however many complete
\* leads the store also holds (L ranges over the limits of the model).
C17_ProcessesMinOfLimitAndMissing ==
    last = "enrich" =>
        \E L \in 1..MaxEnrichLeads :
            Len(batch) = Min(L, Cardinality(Missing(pre)))

====
